---------------------------- MODULE Spec2Model ----------------------------
(***************************************************************************)
(* Voice-to-intent pipeline of the assistant: the hotkey-triggered         *)
(* Processor._process run (capture, streaming recognition, skill match,    *)
(* response, dispatch) and the activation skills.                          *)
(*                                                                         *)
(* Two threads matter.  The main thread runs Processor.run and then blocks *)
(* in keyboard.wait().  The hotkey library delivers key events through one *)
(* queue to one dispatcher thread, which calls the registered callback     *)
(* (Processor._process) synchronously; pc is that thread's position.       *)
(***************************************************************************)
EXTENDS Integers, Sequences, FiniteSets, TLC

(* ------------------------------ bounds --------------------------------- *)
MaxPending == 2
MaxRateUnits == 4
MaxAudioLength == 2
MaxChannels == 1
MaxAlternatives == 2

(* ------------------------- program constants --------------------------- *)
chunk_size == 4000
sample_width == 2
WAV_HEADER == 44

None == "None"
\* response = {}: the dict recognize_input starts from; it has no .results.
EmptyDict == <<>>

\* SPEECH_RECOGNITION['sample_rate'] values: multiples of chunk_size / 2, so
\* that sample_rate / chunk_size is exact in binary floating point.
SampleRates == {(chunk_size \div 2) * k : k \in 1..MaxRateUnits}
AudioLengths == 1..MaxAudioLength
Channels == 1..MaxChannels
Hours == 0..23
\* The hours the clock shows when a handler runs: both ends of every band
\* of assistant_greeting.
ClockHours == {h \in Hours : h \in {0, 9, 11, 12, 17, 18, 23}}

(* --------------------------- capture (stt.py) -------------------------- *)
\* A mutation of NumChunks: rounding up instead of truncating.
NumChunksCeil(rate, secs) == ((rate * secs) + chunk_size - 1) \div chunk_size

\* int(sample_rate / chunk_size * max_audio_length): the product truncated.
NumChunks(rate, secs) == (rate * secs) \div chunk_size

\* len(stream.read(chunk_size)) for paInt16 frames.
RawLen(channels) == chunk_size * channels * sample_width

\* _raw_bytes_to_wav: the raw frames behind a 44-byte header.
raw_bytes_to_wav(i, channels) == [seq |-> i, nbytes |-> WAV_HEADER + RawLen(channels)]

\* A mutation of AudioParam: data_bytes counts the raw frames, not the wav
\* bytes that are sent.
AudioParamRawLen(chunk) == [config |-> [data_bytes |-> chunk.nbytes - WAV_HEADER,
                                        raw |-> TRUE, max_alternatives |-> 5],
                            audio |-> [content |-> chunk]]

\* One element of audio_params: (config(len(chunk)), RecognitionAudio(content=chunk)).
AudioParam(chunk) == [config |-> [data_bytes |-> chunk.nbytes, raw |-> TRUE,
                                  max_alternatives |-> 5],
                      audio |-> [content |-> chunk]]

(* ---------------------- recognizer responses --------------------------- *)
Transcripts == {"wake up", "go to sleep", "hello", "lights on", "mumble"}

Confidences == {1, 2}
Scores == {0, 1}
\* The pipeline's alternatives: the diagnostic scores are held at 0.
Alternatives == [transcript : Transcripts, confidence : Confidences,
                 am_score : {0}, lm_score : {0}]

\* A result group: up to two alternatives, in the order the service sent
\* them; two alternatives differ in text and in confidence.
Groups == {<<>>} \cup {<<a>> : a \in Alternatives}
                 \cup {<<pr[1], pr[2]>> :
                         pr \in {q \in Alternatives \X Alternatives :
                                   /\ q[1].transcript # q[2].transcript
                                   /\ q[1].confidence # q[2].confidence}}

\* What the model lets the service answer: no group, one group, or a first
\* group of at most one alternative followed by another group.
Responses == {[results |-> <<>>]}
             \cup {[results |-> <<g>>] : g \in Groups}
             \cup {[results |-> <<g, <<a>>>>] :
                      g \in {x \in Groups : Len(x) <= 1}, a \in Alternatives}

\* The responses the parsing of recognize_input is checked over: every
\* first group of up to MaxAlternatives alternatives, in any order and with
\* any scores, alone or followed by a later group.
ParseTexts == {"wake up", "mumble"}
ParseAlternatives == [transcript : ParseTexts, confidence : Confidences,
                      am_score : Scores, lm_score : Scores]
ParseGroups == UNION {[1..k -> ParseAlternatives] : k \in 0..MaxAlternatives}
ParseResponses ==
    {[results |-> <<>>]}
    \cup {[results |-> <<g>>] : g \in ParseGroups}
    \cup {[results |-> <<g, h>>] :
             g \in ParseGroups, h \in {<<>>} \cup {<<a>> : a \in ParseAlternatives}}

\* _parse_response: one list of alternative dicts per result group.
parse_response(resp) ==
    [i \in DOMAIN resp.results |->
        [j \in DOMAIN resp.results[i] |->
            [transcript |-> resp.results[i][j].transcript,
             confidence |-> resp.results[i][j].confidence,
             am_score |-> resp.results[i][j].am_score,
             lm_score |-> resp.results[i][j].lm_score]]]

\* return output[0][0]['transcript']: the exception it raises, or "none".
RecognizeRaises(resp) ==
    IF "results" \notin DOMAIN resp THEN "AttributeError"
    ELSE IF Len(parse_response(resp)) = 0 THEN "IndexError"
    ELSE IF Len(parse_response(resp)[1]) = 0 THEN "IndexError"
    ELSE "none"

\* The first alternative of group that no other beats in confidence.
BestOf(group) ==
    CHOOSE j \in DOMAIN group :
        /\ \A k \in DOMAIN group : group[k].confidence <= group[j].confidence
        /\ \A k \in DOMAIN group :
              group[k].confidence = group[j].confidence => j <= k

\* A mutation of RecognizeReturn: the first group's alternative of highest
\* confidence.
RecognizeReturnBest(resp) ==
    parse_response(resp)[1][BestOf(parse_response(resp)[1])].transcript

\* return output[0][0]['transcript'].
RecognizeReturn(resp) == parse_response(resp)[1][1].transcript

(* ------------------ skills (assistant_activation) ---------------------- *)
\* What the assistant emits: sounds, handler speech (cls.response), the
\* response Processor._process hands to the output engine.
Say(text) == [kind |-> "say", text |-> text]
ActivationSound == [kind |-> "sound", text |-> "activation"]
FailureNotice == [kind |-> "failure", text |-> "skill failed"]

\* A mutation of Greeting: the band ends compared with <=.
GreetingOffByOne(hour) ==
    IF hour <= 12 THEN "Good morning human"
    ELSE IF hour <= 18 THEN "Good afternoon human"
    ELSE "Good evening human"

\* The greeting assistant_greeting picks for hour day_time.
Greeting(hour) ==
    IF hour < 12 THEN "Good morning human"
    ELSE IF 12 <= hour /\ hour < 18 THEN "Good afternoon human"
    ELSE "Good evening human"

\* What a handler call does: what it says through cls.response (and the
\* activation sound), the state update it returns (<<>> when it returns
\* nothing), the exception it ends with.
enable_assistant(hour) ==
    [out |-> <<ActivationSound, Say(" ")>>,
     ret |-> <<[ready_to_execute |-> TRUE, enable_time |-> {hour}]>>,
     raises |-> "none"]

disable_assistant(hour) ==
    [out |-> <<Say("Bye")>>, ret |-> <<>>, raises |-> "SystemExit"]

assistant_greeting(hour) ==
    [out |-> <<Say(Greeting(hour))>>, ret |-> <<>>, raises |-> "none"]

\* A registered regular skill: its content is outside the pipeline.
regular_skill(hour) ==
    [out |-> <<>>, ret |-> <<>>, raises |-> "none"]

\* A handler that raises an Exception before it has done anything.
HandlerFault == [out |-> <<>>, ret |-> <<>>, raises |-> "Exception"]

Skills == {"enable_assistant", "disable_assistant", "assistant_greeting",
           "regular_skill"}

CallHandler(skill, hour, fault) ==
    IF fault THEN HandlerFault
    ELSE CASE skill = "enable_assistant" -> enable_assistant(hour)
           [] skill = "disable_assistant" -> disable_assistant(hour)
           [] skill = "assistant_greeting" -> assistant_greeting(hour)
           [] OTHER -> regular_skill(hour)

(* ------------- matcher, gate and responses (controller) ---------------- *)
\* SkillAnalyzer: the skill whose trigger phrase the transcript matches
\* above the sensitivity threshold, or None.
Match(transcript) ==
    CASE transcript = "wake up" -> "enable_assistant"
      [] transcript = "go to sleep" -> "disable_assistant"
      [] transcript = "hello" -> "assistant_greeting"
      [] transcript = "lights on" -> "regular_skill"
      [] OTHER -> None

\* A mutation of GateAllows: a gate that lets every matched skill through.
GateAllowsAll(skill, state) == TRUE

\* ExecutionGate: enable is always dispatchable, every other skill only
\* while the assistant is Armed.
GateAllows(skill, state) ==
    skill = "enable_assistant" \/ state.ready_to_execute

\* ResponseCreator.create_positive_response / create_negative_response.
create_positive_response(transcript) == [kind |-> "positive", text |-> transcript]
create_negative_response(transcript) == [kind |-> "negative", text |-> transcript]

\* A mutation of ProcessResponse: the negative response whatever matched.
ProcessResponseNegative(to_exec, transcript) == create_negative_response(transcript)

\* A mutation of ProcessResponse: the branches swapped.
ProcessResponseSwapped(to_exec, transcript) ==
    IF to_exec # None THEN create_negative_response(transcript)
    ELSE create_positive_response(transcript)

\* Processor._process, lines 76-81: the response it builds.
ProcessResponse(to_exec, transcript) ==
    IF to_exec # None THEN create_positive_response(transcript)
    ELSE create_negative_response(transcript)

(* ------------------------------ state ---------------------------------- *)
VARIABLES
    main,                    \* main thread: "init", then "wait" (keyboard.wait)
    queue,                   \* hotkey events not yet dispatched; TRUE marks
                             \* one pressed while a run was in progress
    pc,                      \* position of the hotkey dispatcher thread
    trigger,                 \* the mark of the event that started this run
    sample_rate, max_audio_length, num_channels,   \* SPEECH_RECOGNITION
    p, stream,               \* the PyAudio instance and its input stream
    audio_params,            \* the requests built from the chunks read
    recog,                   \* what happened to this run's recognition
    calls,                   \* streaming_recognize_raw calls of this run
    raised,                  \* the exception that left _process, or "none"
    latest_voice_transcript, to_execute, execute_state,   \* SkillController
    output,                  \* what this run has emitted, in order
    handler,                 \* the handler this run dispatched, or None
    outcome,                 \* the dispatch outcome of this run
    requests,                \* the requests this run's streaming call issued
    response,                \* recognize_input's local, where a specification
                             \* keeps it (the pipeline consumes the answer in
                             \* the step that receives it)
    day_time                 \* the hour assistant_greeting read, {} otherwise

vars == <<main, queue, pc, trigger, sample_rate, max_audio_length, num_channels,
          p, stream, audio_params, recog, calls, raised,
          latest_voice_transcript, to_execute, execute_state,
          output, handler, outcome, requests, response, day_time>>

settings == <<sample_rate, max_audio_length, num_channels>>
device == <<p, stream>>
controller == <<latest_voice_transcript, to_execute, execute_state>>
locals == <<response, day_time>>

Running == pc \notin {"idle", "dead"}
Capturing == pc \in {"open", "read"}
Armed == execute_state.ready_to_execute

Init ==
    /\ main = "init"
    /\ queue = <<>>
    /\ pc = "idle"
    /\ trigger = FALSE
    /\ sample_rate \in SampleRates
    /\ max_audio_length \in AudioLengths
    /\ num_channels \in Channels
    /\ p = "none"
    /\ stream = "none"
    /\ audio_params = <<>>
    /\ recog = "none"
    /\ calls = 0
    /\ raised = "none"
    /\ latest_voice_transcript = ""
    /\ to_execute = None
    /\ execute_state = [ready_to_execute |-> FALSE, enable_time |-> {}]
    /\ output = <<>>
    /\ handler = None
    /\ outcome = "none"
    /\ requests = <<>>
    /\ response = EmptyDict
    /\ day_time = {}

(* ----------------------------- actions --------------------------------- *)
\* Processor.run: start_up(), register _process on the hotkey, then block.
Run ==
    /\ main = "init"
    /\ main' = "wait"
    /\ UNCHANGED <<queue, pc, trigger, settings, device, audio_params, recog,
                   calls, raised, controller, output, handler, outcome, requests, locals>>

\* The user presses the hotkey: the event joins the dispatcher's queue,
\* whatever the dispatcher thread is doing.
HotkeyPress ==
    /\ main = "wait"
    /\ Len(queue) < MaxPending
    /\ queue' = Append(queue, Running)
    /\ UNCHANGED <<main, pc, trigger, settings, device, audio_params, recog,
                   calls, raised, controller, output, handler, outcome, requests, locals>>

\* The dispatcher thread takes the next event and calls _process, which
\* enters get_transcript -> recognize_input: the generator is created and
\* response = {}.
Dispatch ==
    /\ pc = "idle"
    /\ queue # <<>>
    /\ trigger' = Head(queue)
    /\ queue' = Tail(queue)
    /\ pc' = "open"
    /\ audio_params' = <<>>
    /\ recog' = "none"
    /\ calls' = 0
    /\ output' = <<>>
    /\ handler' = None
    /\ outcome' = "none"
    /\ requests' = <<>>
    /\ day_time' = {}
    /\ UNCHANGED <<main, settings, device, raised, controller, response>>

\* An exception raised while audio_params is built is caught by
\* recognize_input's except clause, response stays {}, and
\* _parse_response(response) raises; nothing above catches it.
CaptureFails ==
    /\ recog' = "capture_failed"
    /\ raised' = RecognizeRaises(EmptyDict)
    /\ pc' = "dead"

\* _record up to the loop: PyAudio() and p.open(...).
OpenDevice ==
    /\ pc = "open"
    /\ p' = "initialized"
    /\ \/ /\ stream' = "open"
          /\ pc' = "read"
          /\ UNCHANGED <<recog, raised>>
       \/ /\ CaptureFails
          /\ UNCHANGED stream
    /\ UNCHANGED <<main, queue, trigger, settings, audio_params, calls,
                   controller, output, handler, outcome, requests, locals>>

\* One iteration of _record's loop, consumed by the list comprehension.
ReadChunk ==
    /\ pc = "read"
    /\ Len(audio_params) < NumChunks(sample_rate, max_audio_length)
    /\ \/ /\ audio_params' = Append(audio_params,
                  AudioParam(raw_bytes_to_wav(Len(audio_params) + 1, num_channels)))
          /\ UNCHANGED <<pc, recog, raised>>
       \/ /\ CaptureFails
          /\ UNCHANGED audio_params
    /\ UNCHANGED <<main, queue, trigger, settings, device, calls,
                   controller, output, handler, outcome, requests, locals>>

\* The loop is exhausted: stop_stream(), close(), terminate().
Release ==
    /\ pc = "read"
    /\ Len(audio_params) = NumChunks(sample_rate, max_audio_length)
    /\ stream' = "closed"
    /\ p' = "terminated"
    /\ pc' = "stream"
    /\ UNCHANGED <<main, queue, trigger, settings, audio_params, recog, calls,
                   raised, controller, output, handler, outcome, requests, locals>>

\* What recog records about a response.
Classify(resp) ==
    IF Len(resp.results) = 0 THEN "no_results"
    ELSE IF Len(resp.results[1]) = 0 THEN "no_alternatives"
    ELSE "ok"

\* SkillController.get_transcript: keep what recognize_input returned.
get_transcript(resp) == RecognizeReturn(resp)

\* uuid="": the session id recognize_input passes for every utterance.
uuid == ""

\* streaming_recognize_raw's request generator: one RecognizeRequest per
\* element of audio_params, each with the call's uuid.
RecognizeRequest(param, id) == [config |-> param.config, audio |-> param.audio, uuid |-> id]
request_gen(params, id) == [i \in DOMAIN params |-> RecognizeRequest(params[i], id)]

\* A mutation of StreamingRecognize: audio_params left a generator, so the
\* call starts while the microphone is still being read.
StreamingRecognizeLazy ==
    /\ pc = "read"
    /\ calls' = calls + 1
    /\ requests' = [i \in DOMAIN audio_params |->
                      [config |-> audio_params[i].config,
                       audio |-> audio_params[i].audio, uuid |-> ""]]
    /\ pc' = "await"
    /\ UNCHANGED <<main, queue, trigger, settings, device, audio_params, recog,
                   raised, controller, output, handler, outcome, locals>>

\* recognize_input reaches client.streaming_recognize_raw(audio_params,
\* uuid=""): the requests go out and the thread blocks in the stub call,
\* which is given timeout=None.
StreamingRecognize ==
    /\ pc = "stream"
    /\ calls' = calls + 1
    /\ requests' = request_gen(audio_params, uuid)
    /\ pc' = "await"
    /\ UNCHANGED <<main, queue, trigger, settings, device, audio_params, recog,
                   raised, controller, output, handler, outcome, locals>>

\* The rest of recognize_input once the call has ended: the except clause,
\* _parse_response and the indexing of its output.
RecognizeEnds(resp, what) ==
    /\ recog' = what
    /\ raised' = RecognizeRaises(resp)
    /\ IF RecognizeRaises(resp) = "none"
       THEN /\ latest_voice_transcript' = get_transcript(resp)
            /\ pc' = "skills"
       ELSE /\ pc' = "dead"
            /\ UNCHANGED latest_voice_transcript

\* The service answers the call, or the call fails; until then the
\* dispatcher thread stays in the stub call.
ServiceAnswers ==
    /\ pc = "await"
    /\ \/ \E resp \in Responses : RecognizeEnds(resp, Classify(resp))
       \/ RecognizeEnds(EmptyDict, "rpc_failed")
    /\ UNCHANGED <<main, queue, trigger, settings, device, audio_params, calls,
                   to_execute, execute_state, output, handler, outcome,
                   requests, locals>>

\* SkillController.get_skills.
GetSkills ==
    /\ pc = "skills"
    /\ to_execute' = Match(latest_voice_transcript)
    /\ pc' = "respond"
    /\ UNCHANGED <<main, queue, trigger, settings, device, audio_params, recog,
                   calls, raised, latest_voice_transcript, execute_state,
                   output, handler, outcome, requests, locals>>

\* A mutation of Respond: the response is built but never handed to the
\* output engine.
RespondSkipped ==
    /\ pc = "respond"
    /\ pc' = "execute"
    /\ UNCHANGED <<main, queue, trigger, settings, device, audio_params, recog,
                   calls, raised, controller, output, handler, outcome,
                   requests, locals>>

\* _process, lines 76-83: build the response and hand it to the output engine.
Respond ==
    /\ pc = "respond"
    /\ output' = Append(output, ProcessResponse(to_execute, latest_voice_transcript))
    /\ pc' = "execute"
    /\ UNCHANGED <<main, queue, trigger, settings, device, audio_params, recog,
                   calls, raised, controller, handler, outcome, requests, locals>>

\* A mutation of ExecuteCatches: a dispatcher with no except clause.
ExecuteCatchesNothing(exc) == FALSE

\* The dispatcher boundary catches Exception; SystemExit is not one.
ExecuteCatches(exc) == exc = "Exception"

\* The state after a handler's partial update.
ApplyUpdate(state, ret) ==
    IF ret = <<>> THEN state
    ELSE [k \in DOMAIN state |-> IF k \in DOMAIN ret[1] THEN ret[1][k] ELSE state[k]]

\* SkillController.execute with the handler it dispatches, the clock
\* showing one of the given hours.
ExecuteAt(hours) ==
    /\ pc = "execute"
    /\ IF to_execute = None \/ ~GateAllows(to_execute, execute_state)
       THEN /\ pc' = "idle"
            /\ UNCHANGED <<output, handler, outcome, execute_state, raised,
                           day_time>>
       ELSE \E hour \in hours, fault \in BOOLEAN :
              LET res == CallHandler(to_execute, hour, fault)
                  caught == ExecuteCatches(res.raises)
                  escapes == res.raises # "none" /\ ~caught
              IN /\ handler' = to_execute
                 /\ output' = output \o res.out
                                \o (IF caught THEN <<FailureNotice>> ELSE <<>>)
                 /\ execute_state' = ApplyUpdate(execute_state, res.ret)
                 /\ outcome' = IF caught THEN "SkillExecutionError"
                               ELSE IF escapes THEN res.raises ELSE "ok"
                 /\ raised' = IF escapes THEN res.raises ELSE "none"
                 /\ day_time' = IF to_execute = "assistant_greeting" /\ ~fault
                                THEN {hour} ELSE {}
                 /\ pc' = IF escapes THEN "dead" ELSE "idle"
    /\ UNCHANGED <<main, queue, trigger, settings, device, audio_params, recog,
                   calls, latest_voice_transcript, to_execute, requests,
                   response>>

Execute == ExecuteAt(ClockHours)

Next ==
    \/ Run
    \/ HotkeyPress
    \/ Dispatch
    \/ OpenDevice
    \/ ReadChunk
    \/ Release
    \/ StreamingRecognize
    \/ ServiceAnswers
    \/ GetSkills
    \/ Respond
    \/ Execute

Spec == Init /\ [][Next]_vars

\* The steps the dispatcher thread takes by itself.  The answer to the
\* streaming call is the service's step, and a hotkey press the user's.
ThreadStep ==
    \/ Dispatch
    \/ OpenDevice
    \/ ReadChunk
    \/ Release
    \/ StreamingRecognize
    \/ GetSkills
    \/ Respond
    \/ Execute

\* The pipeline with a dispatcher thread that keeps running: the scheduler
\* gives it its steps, the audio device delivers its frames; nothing obliges
\* the recognition service to answer.
FairSpec == Spec /\ WF_vars(ThreadStep)

(* --------------------- recognize_input's parsing ----------------------- *)
\* The dispatcher thread in the streaming call of a first run, one chunk
\* captured and sent.
InCall ==
    /\ main = "wait"
    /\ queue = <<>>
    /\ trigger = FALSE
    /\ sample_rate = chunk_size
    /\ max_audio_length = 1
    /\ num_channels = 1
    /\ p = "terminated"
    /\ stream = "closed"
    /\ audio_params = <<AudioParam(raw_bytes_to_wav(1, 1))>>
    /\ calls = 1
    /\ raised = "none"
    /\ requests = request_gen(audio_params, uuid)
    /\ response = EmptyDict
    /\ day_time = {}
    /\ handler = None
    /\ outcome = "none"

InitParse ==
    /\ InCall
    /\ pc = "await"
    /\ recog = "none"
    /\ latest_voice_transcript = ""
    /\ to_execute = None
    /\ execute_state = [ready_to_execute |-> FALSE, enable_time |-> {}]
    /\ output = <<>>

\* The service's answer reaches recognize_input, which parses it and
\* returns; response is kept for the comparison.
ParseAnswer ==
    /\ pc = "await"
    /\ \E resp \in ParseResponses :
          /\ response' = resp
          /\ RecognizeEnds(resp, Classify(resp))
    /\ UNCHANGED <<main, queue, trigger, settings, device, audio_params, calls,
                   to_execute, execute_state, output, handler, outcome,
                   requests, day_time>>

NextParse == ParseAnswer

SpecParse == InitParse /\ [][NextParse]_vars

(* ------------------------ assistant_greeting --------------------------- *)
\* A run that heard "hello" and has emitted its response: execute is next,
\* the assistant Disabled or Armed at some earlier hour.
InitGreeting ==
    /\ InCall
    /\ pc = "execute"
    /\ recog = "ok"
    /\ latest_voice_transcript = "hello"
    /\ to_execute = Match("hello")
    /\ execute_state \in
          {[ready_to_execute |-> FALSE, enable_time |-> {}]}
          \cup {[ready_to_execute |-> TRUE, enable_time |-> {h}] : h \in ClockHours}
    /\ output = <<ProcessResponse(to_execute, latest_voice_transcript)>>

\* execute at any hour of the day.
GreetingCall == ExecuteAt(Hours)

NextGreeting == GreetingCall

SpecGreeting == InitGreeting /\ [][NextGreeting]_vars

(* ------------------------------ claims --------------------------------- *)

\* C1: a hotkey trigger that fires while a pipeline run is in progress is
\* ignored or dropped: no run is ever started by such a trigger.  (Runs do
\* not overlap, since one dispatcher thread calls _process; but nothing in
\* Processor.run or _process drops the queued event.)
C1_ReentrantTriggerDropped == ~(Running /\ trigger)

\* C2: once the capture of a run is over, on the success path and on every
\* failure path, the input stream opened for it is no longer open.
C2_MicReleasedAfterCapture == ~Capturing => stream # "open"

\* C3 as stated: a capture that ran to completion holds ceil(r/f * d) chunks:
\* the least n with n * f >= r * d.
C3_ChunksCeil ==
    pc = "stream" =>
        /\ Len(audio_params) * chunk_size >= sample_rate * max_audio_length
        /\ (Len(audio_params) - 1) * chunk_size < sample_rate * max_audio_length

\* C3 amended: a capture that ran to completion holds floor(r/f * d) chunks:
\* the greatest n with n * f <= r * d.
C3_ChunksFloor ==
    pc = "stream" =>
        /\ Len(audio_params) * chunk_size <= sample_rate * max_audio_length
        /\ (Len(audio_params) + 1) * chunk_size > sample_rate * max_audio_length

\* C3 witness: a completed capture whose r * d is no multiple of f.
C3_Witness ==
    /\ pc = "stream"
    /\ Len(audio_params) > 0
    /\ (sample_rate * max_audio_length) % chunk_size # 0

\* C4: a response with no result group, or with an empty first group, makes
\* recognize_input return without an error, and the run goes on.
C4_NoTranscriptIsNoError ==
    recog \in {"no_results", "no_alternatives"} => (raised = "none" /\ pc # "dead")

\* C5: after a failed streaming call the failure itself is what the run
\* reports, exactly one call was made, and the dispatcher thread lives on to
\* process later triggers.
C5_RecognitionFailureSurfaced ==
    recog = "rpc_failed" =>
        /\ calls = 1
        /\ raised # "AttributeError"
        /\ pc # "dead"

\* C6: in a run that matched no skill, the one thing emitted is the negative
\* response; the execute step dispatches no handler, emits nothing and
\* leaves the assistant state as it was, as does every step before it.
C6_NoMatchNoAction ==
    [][/\ (pc # "execute" => execute_state' = execute_state)
       /\ (pc = "execute" /\ to_execute = None) =>
             /\ output = <<create_negative_response(latest_voice_transcript)>>
             /\ output' = output
             /\ handler' = None
             /\ execute_state' = execute_state]_vars

\* C6 witness: a finished run that matched nothing and said so.
C6_Witness ==
    /\ pc = "idle"
    /\ to_execute = None
    /\ handler = None
    /\ Len(output) = 1
    /\ output[1].kind = "negative"

\* C7: while the assistant is Disabled the only handler ever dispatched is
\* enable_assistant, and a step that leaves Disabled is a dispatch of it.
C7_DisabledOnlyEnable ==
    [][~Armed =>
          /\ (pc = "execute" => handler' \in {None, "enable_assistant"})
          /\ (Armed' => (pc = "execute" /\ handler' = "enable_assistant"))]_vars

\* C7 witness: the assistant was armed by a run that dispatched enable.
C7_Witness ==
    /\ Armed
    /\ handler = "enable_assistant"
    /\ outcome = "ok"

\* C8: once the disable handler has called sys.exit(), the process is gone:
\* the main thread is no longer waiting in keyboard.wait().
C8_DisableTerminatesProcess ==
    (handler = "disable_assistant" /\ outcome = "SystemExit") => main = "exited"

\* C9: a run that dispatched enable_assistant has played the activation
\* sound, spoken the greeting of the hour it recorded as enable_time, and
\* returned the update (enabled, enable_time).
C9_EnableGreets ==
    (handler = "enable_assistant" /\ outcome = "ok") =>
        /\ \E i \in DOMAIN output : output[i] = ActivationSound
        /\ execute_state.ready_to_execute
        /\ \E h \in Hours :
              /\ execute_state.enable_time = {h}
              /\ \E i \in DOMAIN output : output[i] = Say(Greeting(h))

\* C10: a dispatch that does not end normally or by the deliberate exit
\* ends as SkillExecutionError: nothing is raised out of _process, the
\* dispatcher thread is idle again and the assistant state is unchanged.
C10_HandlerFaultContained ==
    [][(pc = "execute" /\ handler' # None /\ outcome' \notin {"ok", "SystemExit"}) =>
          /\ outcome' = "SkillExecutionError"
          /\ raised' = "none"
          /\ pc' = "idle"
          /\ main' = "wait"
          /\ execute_state' = execute_state]_vars

\* C10 witness: an Armed assistant after a handler fault, ready for the
\* next trigger.
C10_Witness ==
    /\ outcome = "SkillExecutionError"
    /\ Armed
    /\ pc = "idle"
    /\ raised = "none"

\* C11: every triggered pipeline run eventually finishes, even when the
\* recognition service never answers: the wait for it is bounded.
C11_RunFinishes == Running ~> ~Running

\* The response of this run has reached the output engine.
ResponseEmitted ==
    \E i \in DOMAIN output : output[i].kind \in {"positive", "negative"}

\* C12 as stated: the response is emitted only after the run's execute has
\* completed, so it is not yet out while execute is still to come.
C12_ResponseAfterExecute == pc = "execute" => ~ResponseEmitted

\* C12 amended: the stages run in the order capture, recognition, match,
\* response, dispatch: nothing is emitted or dispatched before the response
\* step, the streaming call is made only after the capture, and whatever a
\* handler emits comes after the response.
C12_StageOrder ==
    /\ pc \in {"open", "read", "stream"} => calls = 0
    /\ pc \in {"await", "skills", "respond", "execute"} => calls = 1
    /\ pc \in {"open", "read", "stream", "await", "skills", "respond"} =>
          (output = <<>> /\ handler = None)
    /\ pc = "execute" =>
          (Len(output) = 1 /\ ResponseEmitted /\ handler = None)
    /\ handler # None =>
          (Len(output) >= 1 /\ output[1].kind \in {"positive", "negative"})

\* C12 witness: a run whose handler spoke after the response was emitted.
C12_Witness ==
    /\ handler # None
    /\ Len(output) >= 2
    /\ output[1].kind = "positive"
    /\ output[2].kind \in {"say", "sound"}

\* C13: once the streaming call of a run is made, it has issued one request
\* per captured chunk, the i-th carrying the i-th chunk; all carry one
\* session id, and each data_bytes is the byte length of the audio payload
\* of the same request.
C13_RequestsCarryChunks ==
    calls = 1 =>
        /\ Len(requests) = Len(audio_params)
        /\ \A i \in DOMAIN requests :
              /\ requests[i].audio.content.seq = i
              /\ requests[i].audio = audio_params[i].audio
              /\ requests[i].uuid = requests[1].uuid
              /\ requests[i].config.data_bytes = requests[i].audio.content.nbytes

\* C13 witness: a call that issued several requests of wav-sized payloads.
C13_Witness ==
    /\ calls = 1
    /\ Len(requests) >= 2
    /\ requests[2].config.data_bytes = WAV_HEADER + RawLen(num_channels)

\* C15: no request is issued before the capture is over: once the call is
\* made the microphone stream is closed, the audio backend terminated and
\* every chunk of the capture is in the request list.
C15_CaptureBeforeRequests ==
    (calls > 0 \/ requests # <<>>) =>
        /\ ~Capturing
        /\ stream = "closed"
        /\ p = "terminated"
        /\ Len(requests) * chunk_size <= sample_rate * max_audio_length
        /\ (Len(requests) + 1) * chunk_size > sample_rate * max_audio_length

\* C15 witness: the thread waits in the call, the full capture sent.
C15_Witness ==
    /\ pc = "await"
    /\ Len(requests) >= 2
    /\ stream = "closed"

\* C16: a run that got past get_transcript and get_skills and reached the
\* output engine has emitted exactly one response, about the latest
\* transcript: positive iff to_execute is set, negative otherwise.
C16_OneResponse ==
    (recog = "ok" /\ pc \in {"execute", "idle", "dead"}) =>
        /\ Cardinality({i \in DOMAIN output :
                          output[i].kind \in {"positive", "negative"}}) = 1
        /\ output[1] = [kind |-> IF to_execute # None THEN "positive" ELSE "negative",
                        text |-> latest_voice_transcript]

\* C16 witness: a finished run that answered positively although the gate
\* let no handler run.
C16_Witness ==
    /\ pc = "idle"
    /\ recog = "ok"
    /\ to_execute = "regular_skill"
    /\ handler = None
    /\ output = <<create_positive_response("lights on")>>

\* The response recognize_input received has an alternative in its first
\* result group.
HasAlternative ==
    /\ "results" \in DOMAIN response
    /\ Len(response.results) >= 1
    /\ Len(response.results[1]) >= 1

\* C14 as stated: the transcript returned is the text of an alternative of
\* the first result group that no other alternative of the group beats in
\* confidence, whatever the order of arrival.
C14_HighestConfidence ==
    HasAlternative =>
        /\ pc = "skills"
        /\ \E j \in DOMAIN response.results[1] :
              /\ response.results[1][j].transcript = latest_voice_transcript
              /\ \A k \in DOMAIN response.results[1] :
                    response.results[1][k].confidence
                        <= response.results[1][j].confidence

\* C14 amended: the transcript returned is the text of the alternative that
\* arrived first in the first result group, whatever the confidences, the
\* acoustic and language scores and the later groups are.
C14_FirstAlternative ==
    HasAlternative =>
        /\ pc = "skills"
        /\ raised = "none"
        /\ latest_voice_transcript = response.results[1][1].transcript

\* C14 witness: the first alternative returned although the second one has
\* the higher confidence and better scores, and a later group exists.
C14_Witness ==
    /\ HasAlternative
    /\ Len(response.results) = 2
    /\ Len(response.results[1]) = 2
    /\ response.results[1][1].confidence < response.results[1][2].confidence
    /\ response.results[1][1].am_score < response.results[1][2].am_score
    /\ response.results[1][1].transcript # response.results[1][2].transcript
    /\ latest_voice_transcript = response.results[1][1].transcript

\* C17: a call of assistant_greeting at hour h says one thing, the greeting
\* of h's band (morning iff h < 12, afternoon iff 12 <= h < 18, evening iff
\* h >= 18), raises nothing and leaves the assistant state as it was.
C17_GreetingBands ==
    [][(pc = "execute" /\ handler' = "assistant_greeting" /\ outcome' = "ok") =>
          /\ execute_state' = execute_state
          /\ raised' = "none"
          /\ \E h \in Hours :
                /\ day_time' = {h}
                /\ \E text \in {"Good morning human", "Good afternoon human",
                                 "Good evening human"} :
                      /\ output' = Append(output, Say(text))
                      /\ text = "Good morning human" <=> h < 12
                      /\ text = "Good afternoon human" <=> (12 <= h /\ h < 18)
                      /\ text = "Good evening human" <=> h >= 18]_vars

\* C17 witness: the greeting spoken at noon.
C17_Witness ==
    /\ handler = "assistant_greeting"
    /\ outcome = "ok"
    /\ day_time = {12}
    /\ output[Len(output)] = Say("Good afternoon human")

=============================================================================
